---- MODULE Spec2Model ----
(***************************************************************************)
(* A model of src/extract_info.py, the flood-report extraction pipeline.   *)
(*                                                                         *)
(* Text is modelled as a sequence of word tokens (words, numbers and       *)
(* punctuation marks); a punctuation token is attached to the word before  *)
(* it and every other token is separated from its predecessor by one       *)
(* blank.  A string value of the program (a place name, a date, a matched  *)
(* number) is the sequence of the tokens it spans, so that string equality *)
(* is sequence equality.  Each regular expression of the source is         *)
(* translated to a matcher over tokens; what a pattern requires of the     *)
(* characters of one word (a capital initial, a keyword as a prefix or as  *)
(* a substring, a run of digits) is read from the lexicon tables below.    *)
(* The named-entity recognizer is a black box: nlp(text) may return any    *)
(* sequence of non-overlapping labelled spans over the tokens.             *)
(***************************************************************************)
EXTENDS Integers, Sequences, FiniteSets, TLC

VARIABLES
    pc,                  \* position of the program (main and process_article)
    text,                \* process_article: the article text
    filename,            \* process_article: the article's file name
    doc,                 \* process_article: nlp(text), [tokens, ents]
    locations,           \* process_article: texts of the GPE entities
    dates,               \* process_article: texts of the DATE entities
    regex_locations,     \* process_article: extract_locations_with_regex(text)
    spacy_categorized,   \* process_article: categorize_locations_by_context(..)
    final_locations,     \* process_article: merge_location_results(..)
    disaster_type,       \* process_article: extract_disaster_type(text)
    categorized_numbers, \* process_article: extract_categorized_numbers(text)
    event_date,          \* process_article: extract_event_date(dates, text)
    console,             \* everything printed so far, in order
    fs,                  \* the file system at data/raw_articles
    txt_files,           \* main: the eligible file names
    file_idx,            \* main: how many files the for loop has taken
    exc                  \* the exception in flight, or "none"

vars == <<pc, text, filename, doc, locations, dates, regex_locations,
          spacy_categorized, final_locations, disaster_type,
          categorized_numbers, event_date, console, fs, txt_files,
          file_idx, exc>>

articleVars == <<text, filename, doc, locations, dates, regex_locations,
                 spacy_categorized, final_locations, disaster_type,
                 categorized_numbers, event_date>>

mainVars == <<fs, txt_files, file_idx>>

-----------------------------------------------------------------------------
(* Bounds of the model *)

\* longest generated location text, in generator items
MaxLocItems == 4
\* longest generated casualty text, in tokens
MaxNumLen == 4
\* longest generated date text, in generator items
MaxDateItems == 4
\* most files in the input directory
MaxFiles == 2
\* longest entity span the recognizer returns, in tokens
MaxSpanLen == 2
\* most entities the recognizer returns for one text
MaxEnts == 2

-----------------------------------------------------------------------------
(* Sequence helpers *)

Range(s) == {s[i] : i \in 1..Len(s)}

Min(a, b) == IF a < b THEN a ELSE b

Max(a, b) == IF a > b THEN a ELSE b

\* Python's s[a:b] for 0 <= a, b <= len(s)
Slice(s, a, b) == SubSeq(s, a + 1, b)

RECURSIVE Flatten(_)
Flatten(ss) == IF ss = <<>> THEN <<>> ELSE Head(ss) \o Flatten(Tail(ss))

\* all sequences over S of length 0..n
SeqsUpTo(S, n) == UNION {[1..k -> S] : k \in 0..n}

None == [none |-> TRUE]

-----------------------------------------------------------------------------
(* Lexicon: what the patterns of the source see in one token *)

\* the line break: white space to \s, and the one token . does not match
NL == "\n"

\* \s* or \s+ from token i on: the first token that is not a line break
RECURSIVE SkipBreaks(_, _)
SkipBreaks(t, i) ==
    IF i <= Len(t) /\ t[i] = NL THEN SkipBreaks(t, i + 1) ELSE i

\* tokens that match [A-Z][a-z]+ as a whole
CapWords ==
    {"Dhaka", "Sylhet", "Sirajganj", "Tangail", "Bogra", "Nearly", "August",
     "Flooding", "At", "Upazila", "Killed"}

\* tokens whose first character is in [A-Z]
StartsUpper == CapWords \cup {"FLOOD"}

\* tokens that begin with district, zila or zilla
DistrictKwStart == {"district", "districts", "zila", "zilla"}

\* tokens that begin with upazila, upazilla, thana or sub-district
UpazilaKwStart == {"upazila", "upazilas", "upazilla", "thana", "sub-district"}

\* tokens that end with upazila or upazilas
UpazilaListHead == {"upazila", "upazilas"}

\* tokens that end with district or districts
DistrictListHead == {"district", "districts", "sub-district"}

\* tokens that are -- or :
ListSeparators == {"--", ":"}

\* tokens that begin with Nearly, Almost, About or a digit
TransitionStart ==
    {"Nearly", "Almost", "About", "5", "12", "21", "40", "500", "2024", "2.5",
     "1,200"}

\* str.lower() of one token
Lower(tok) ==
    CASE tok = "Dhaka" -> "dhaka"
      [] tok = "Sylhet" -> "sylhet"
      [] tok = "Sirajganj" -> "sirajganj"
      [] tok = "Tangail" -> "tangail"
      [] tok = "Bogra" -> "bogra"
      [] tok = "Nearly" -> "nearly"
      [] tok = "August" -> "august"
      [] tok = "Flooding" -> "flooding"
      [] tok = "At" -> "at"
      [] tok = "Upazila" -> "upazila"
      [] tok = "Killed" -> "killed"
      [] tok = "FLOOD" -> "flood"
      [] OTHER -> tok

\* text.lower()
LowerText(t) == [i \in 1..Len(t) |-> Lower(t[i])]

\* the lower-case tokens that contain the keyword as a substring
TokensContaining(keyword) ==
    CASE keyword = "upazila" -> {"upazila", "upazilas"}
      [] keyword = "upazilla" -> {"upazilla"}
      [] keyword = "thana" -> {"thana"}
      [] keyword = "sub-district" -> {"sub-district"}
      [] keyword = "district" -> {"district", "districts", "sub-district"}
      [] keyword = "zila" -> {"zila", "upazila", "upazilas"}
      [] keyword = "zilla" -> {"zilla", "upazilla"}
      [] OTHER -> {}

UPAZILA_CONTEXT_KEYWORDS == {"upazila", "upazilla", "thana", "sub-district"}

DISTRICT_CONTEXT_KEYWORDS == {"district", "zila", "zilla"}

\* keyword in context, for a lower-cased context
KeywordIn(keyword, context) ==
    \E i \in 1..Len(context) : context[i] \in TokensContaining(keyword)

-----------------------------------------------------------------------------
(* extract_locations_with_regex *)

\* ([A-Z][a-z]+(?:\s+[A-Z][a-z]+)?)\s+(?:kw1|kw2|..) tried at token i:
\* the two-word name first (the optional group is greedy), then the one-word
NameKeywordMatchAt(t, i, kwStart) ==
    IF i > Len(t) \/ t[i] \notin CapWords THEN None
    ELSE LET j == SkipBreaks(t, i + 1)
             k == SkipBreaks(t, j + 1)
         IN IF j <= Len(t) /\ t[j] \in CapWords /\ k <= Len(t) /\ t[k] \in kwStart
            THEN [none |-> FALSE, group |-> SubSeq(t, i, j), next |-> k + 1]
            ELSE IF j <= Len(t) /\ t[j] \in kwStart
            THEN [none |-> FALSE, group |-> <<t[i]>>, next |-> j + 1]
            ELSE None

\* re.findall of the name-keyword pattern: leftmost matches, not overlapping
RECURSIVE FindAllNameKeyword(_, _, _)
FindAllNameKeyword(t, i, kwStart) ==
    IF i > Len(t) THEN <<>>
    ELSE LET m == NameKeywordMatchAt(t, i, kwStart) IN
         IF m.none THEN FindAllNameKeyword(t, i + 1, kwStart)
         ELSE <<m.group>> \o FindAllNameKeyword(t, m.next, kwStart)

\* what a token with a terminator in it holds before the terminator
BeforeTerminator(tok) ==
    CASE tok = "2.5" -> <<"2">>
      [] tok = "1,200" -> <<"1">>
      [] OTHER -> <<>>

\* tokens with a terminator in them: a full stop, or a comma and a digit
TerminatorTokens == {".", "2.5", "1,200"}

\* (?:\.|,\s*(?:Nearly|Almost|About|\d)) at token j
ListTerminatorAt(t, j) ==
    \/ t[j] \in TerminatorTokens
    \/ /\ t[j] = ","
       /\ SkipBreaks(t, j + 1) <= Len(t)
       /\ t[SkipBreaks(t, j + 1)] \in TransitionStart

\* heads?\s*(?:--|:)\s*([A-Z][^.]+?)(?:\.|,\s*(?:Nearly|Almost|About|\d))
\* tried at token i: the lazy group ends before the first terminator
ListMatchAt(t, i, heads) ==
    LET s == SkipBreaks(t, i + 1)
        k == SkipBreaks(t, s + 1)
    IN IF i > Len(t) \/ k > Len(t) \/ t[i] \notin heads
          \/ t[s] \notin ListSeparators \/ t[k] \notin StartsUpper
       THEN None
       ELSE LET ends == {j \in (k + 1)..Len(t) : ListTerminatorAt(t, j)} IN
            IF ends = {} THEN None
            ELSE LET j == CHOOSE e \in ends : \A f \in ends : e <= f IN
                 [none |-> FALSE,
                  group |-> SubSeq(t, k, j - 1)
                            \o (IF t[j] \in TerminatorTokens
                                THEN BeforeTerminator(t[j]) ELSE <<>>),
                  next |-> IF t[j] \in TerminatorTokens THEN j + 1
                           ELSE SkipBreaks(t, j + 1) + 1]

RECURSIVE FindAllList(_, _, _)
FindAllList(t, i, heads) ==
    IF i > Len(t) THEN <<>>
    ELSE LET m == ListMatchAt(t, i, heads) IN
         IF m.none THEN FindAllList(t, i + 1, heads)
         ELSE <<m.group>> \o FindAllList(t, m.next, heads)

\* tokens written without a blank before them
AttachedTokens == {",", "."}

\* re.split(r',\s*(?:and\s+)?', match): cut at every comma, and drop the
\* white space after it and an "and" that is itself followed by white space
RECURSIVE SplitPlaces(_, _)
SplitPlaces(m, piece) ==
    IF m = <<>> THEN <<piece>>
    ELSE IF Head(m) = ","
         THEN LET rest == SubSeq(m, SkipBreaks(m, 2), Len(m))
                  after == IF Len(rest) >= 2 /\ rest[1] = "and"
                              /\ rest[2] \notin AttachedTokens
                           THEN SubSeq(rest, SkipBreaks(rest, 2), Len(rest))
                           ELSE rest
              IN <<piece>> \o SplitPlaces(after, <<>>)
    ELSE SplitPlaces(Tail(m), Append(piece, Head(m)))

\* str.strip() of a piece: the line breaks at its ends removed
RECURSIVE Strip(_)
Strip(p) ==
    IF p = <<>> THEN p
    ELSE IF Head(p) = NL THEN Strip(Tail(p))
    ELSE IF p[Len(p)] = NL THEN Strip(SubSeq(p, 1, Len(p) - 1))
    ELSE p

\* [p.strip() for p in places if p.strip()] over all the list matches
RECURSIVE PlacesOf(_)
PlacesOf(matches) ==
    IF matches = <<>> THEN <<>>
    ELSE LET places == SplitPlaces(Head(matches), <<>>)
             stripped == [i \in 1..Len(places) |-> Strip(places[i])]
         IN SelectSeq(stripped, LAMBDA p : p # <<>>) \o PlacesOf(Tail(matches))

\* list(set(xs)): every element once, in an order no caller depends on
ListOfSet(xs) == Range(xs)

extract_locations_with_regex(t) ==
    LET district_matches == FindAllNameKeyword(t, 1, DistrictKwStart)
        upazila_matches == FindAllNameKeyword(t, 1, UpazilaKwStart)
        list_matches == FindAllList(t, 1, UpazilaListHead)
        district_list_matches == FindAllList(t, 1, DistrictListHead)
    IN [districts |-> ListOfSet(district_matches \o PlacesOf(district_list_matches)),
        upazilas |-> ListOfSet(upazila_matches \o PlacesOf(list_matches))]

-----------------------------------------------------------------------------
(* categorize_locations_by_context *)

\* tokens inspected on each side of an entity span
CONTEXT_TOKENS == 5

\* doc[start_idx:end_idx].text.lower() for the span of ent
ContextOf(d, ent) ==
    LET start_idx == Max(0, ent.start - CONTEXT_TOKENS)
        end_idx == Min(Len(d.tokens), ent.end + CONTEXT_TOKENS)
    IN LowerText(Slice(d.tokens, start_idx, end_idx))

\* the if / elif with the district keywords tested first
CategoryOfContextDistrictFirst(context) ==
    IF \E k \in DISTRICT_CONTEXT_KEYWORDS : KeywordIn(k, context) THEN "districts"
    ELSE IF \E k \in UPAZILA_CONTEXT_KEYWORDS : KeywordIn(k, context)
         THEN "upazilas"
    ELSE "uncertain_locations"

\* the if / elif over the context of the inspected span
CategoryOfContext(context) ==
    IF \E k \in UPAZILA_CONTEXT_KEYWORDS : KeywordIn(k, context) THEN "upazilas"
    ELSE IF \E k \in DISTRICT_CONTEXT_KEYWORDS : KeywordIn(k, context)
         THEN "districts"
    ELSE "uncertain_locations"

\* the inner for loop without its break: the last matching entity decides
InspectedEntLast(d, loc) ==
    LET hits == {i \in 1..Len(d.ents) :
                    d.ents[i].text = loc /\ d.ents[i].label = "GPE"}
    IN IF hits = {} THEN 0 ELSE CHOOSE i \in hits : \A j \in hits : i >= j

\* the inner for loop: the entity whose context is inspected for loc, the
\* first one in doc.ents with that text and the label GPE (then break);
\* 0 when the loop ends without one
InspectedEnt(d, loc) ==
    LET hits == {i \in 1..Len(d.ents) :
                    d.ents[i].text = loc /\ d.ents[i].label = "GPE"}
    IN IF hits = {} THEN 0 ELSE CHOOSE i \in hits : \A j \in hits : i <= j

\* the list that one iteration of the outer loop appends loc to
CategoryOf(d, loc) ==
    LET i == InspectedEnt(d, loc) IN
    IF i = 0 THEN "uncertain_locations"
    ELSE CategoryOfContext(ContextOf(d, d.ents[i]))

\* every GPE span classified by its own context, not by its name's first span
categorize_each_span(d, locs) ==
    LET gpe == SelectSeq(d.ents, LAMBDA e : e.label = "GPE")
        cat(k) == CategoryOfContext(ContextOf(d, gpe[k]))
        pick(c) == LET ks == SelectSeq([k \in 1..Len(gpe) |-> k],
                                       LAMBDA k : cat(k) = c)
                   IN [j \in 1..Len(ks) |-> gpe[ks[j]].text]
    IN [districts |-> pick("districts"),
        upazilas |-> pick("upazilas"),
        uncertain_locations |-> pick("uncertain_locations")]

categorize_locations_by_context(d, locs) ==
    [districts |-> SelectSeq(locs, LAMBDA l : CategoryOf(d, l) = "districts"),
     upazilas |-> SelectSeq(locs, LAMBDA l : CategoryOf(d, l) = "upazilas"),
     uncertain_locations |->
         SelectSeq(locs, LAMBDA l : CategoryOf(d, l) = "uncertain_locations")]

-----------------------------------------------------------------------------
(* merge_location_results *)

\* a merge that keeps the regex names only where the recognizer found none
merge_recognizer_first(spacy_results, regex_results) ==
    [districts |-> IF spacy_results.districts # <<>>
                   THEN Range(spacy_results.districts)
                   ELSE regex_results.districts,
     upazilas |-> IF spacy_results.upazilas # <<>>
                  THEN Range(spacy_results.upazilas)
                  ELSE regex_results.upazilas,
     uncertain_locations |-> spacy_results.uncertain_locations]

\* a merge that drops from uncertain the names the regex path has typed
merge_resolving_uncertain(spacy_results, regex_results) ==
    [districts |-> Range(spacy_results.districts) \cup regex_results.districts,
     upazilas |-> Range(spacy_results.upazilas) \cup regex_results.upazilas,
     uncertain_locations |->
         SelectSeq(spacy_results.uncertain_locations,
                   LAMBDA l : l \notin regex_results.districts
                              /\ l \notin regex_results.upazilas)]

merge_location_results(spacy_results, regex_results) ==
    [districts |-> Range(spacy_results.districts) \cup regex_results.districts,
     upazilas |-> Range(spacy_results.upazilas) \cup regex_results.upazilas,
     uncertain_locations |-> spacy_results.uncertain_locations]

-----------------------------------------------------------------------------
(* extract_disaster_type *)

\* the lower-case tokens that contain one of FLOOD_KEYWORDS as a substring
FLOOD_KEYWORD_TOKENS ==
    {"flood", "floods", "flooding", "floodwater", "flooded", "inundated",
     "waterlogging"}

extract_disaster_type(t) ==
    LET text_lower == LowerText(t)
        found_keywords == {i \in 1..Len(t) : text_lower[i] \in FLOOD_KEYWORD_TOKENS}
    IN IF found_keywords # {} THEN "flood" ELSE "unknown"

-----------------------------------------------------------------------------
(* extract_categorized_numbers *)

\* tokens matched as a whole by \d+(?:,\d+)*(?:\.\d+)?
NumberTokens == {"5", "12", "21", "40", "500", "2024", "2.5", "1,200"}

\* the first run of digits of a number token
FirstDigits(tok) ==
    CASE tok = "2.5" -> "2"
      [] tok = "1,200" -> "1"
      [] OTHER -> tok

\* the last run of digits of a number token
LastDigits(tok) ==
    CASE tok = "2.5" -> "5"
      [] tok = "1,200" -> "200"
      [] OTHER -> tok

WholeNumber(tok) == tok

\* what the group of a pattern holds of the number token it matched in:
\* the last run of digits, the first run, or the whole number
GroupOf(digits, tok) ==
    CASE digits = "last" -> LastDigits(tok)
      [] digits = "first" -> FirstDigits(tok)
      [] digits = "whole" -> WholeNumber(tok)

\* (number)\s*(?:unit)?\s*(?:keyword) tried at token i; digits says what
\* the group holds of the number token
NumberKeywordMatchAt(t, i, digits, units, kwStart) ==
    IF i > Len(t) \/ t[i] \notin NumberTokens THEN None
    ELSE LET j == SkipBreaks(t, i + 1)
             k == SkipBreaks(t, j + 1)
         IN IF j <= Len(t) /\ t[j] \in units /\ k <= Len(t) /\ t[k] \in kwStart
            THEN [none |-> FALSE, group |-> <<GroupOf(digits, t[i])>>, next |-> k + 1]
            ELSE IF j <= Len(t) /\ t[j] \in kwStart
            THEN [none |-> FALSE, group |-> <<GroupOf(digits, t[i])>>, next |-> j + 1]
            ELSE None

RECURSIVE FindAllNumberKeyword(_, _, _, _, _)
FindAllNumberKeyword(t, i, digits, units, kwStart) ==
    IF i > Len(t) THEN <<>>
    ELSE LET m == NumberKeywordMatchAt(t, i, digits, units, kwStart) IN
         IF m.none THEN FindAllNumberKeyword(t, i + 1, digits, units, kwStart)
         ELSE <<m.group>> \o FindAllNumberKeyword(t, m.next, digits, units, kwStart)

\* where the keyword of a keyword-first pattern ends when it starts in
\* token i: i for a one-word keyword, i + 1 for "death toll", 0 for no match
KeywordEndAt(t, i, kwIn, kwPairs) ==
    IF i > Len(t) THEN 0
    ELSE IF t[i] \in kwIn THEN i
    ELSE IF i + 1 <= Len(t) /\ <<t[i], t[i + 1]>> \in kwPairs THEN i + 1
    ELSE 0

\* (?:keyword).*?(number) tried at token i: the first number token after the
\* keyword on the same line
KeywordNumberMatchAt(t, i, digits, kwIn, kwPairs) ==
    LET e == KeywordEndAt(t, i, kwIn, kwPairs) IN
    IF e = 0 THEN None
    ELSE LET nums == {j \in (e + 1)..Len(t) :
                         /\ t[j] \in NumberTokens
                         /\ \A b \in (e + 1)..(j - 1) : t[b] # NL}
         IN IF nums = {} THEN None
            ELSE LET j == CHOOSE n \in nums : \A o \in nums : n <= o IN
                 [none |-> FALSE, group |-> <<GroupOf(digits, t[j])>>, next |-> j + 1]

RECURSIVE FindAllKeywordNumber(_, _, _, _, _)
FindAllKeywordNumber(t, i, digits, kwIn, kwPairs) ==
    IF i > Len(t) THEN <<>>
    ELSE LET m == KeywordNumberMatchAt(t, i, digits, kwIn, kwPairs) IN
         IF m.none THEN FindAllKeywordNumber(t, i + 1, digits, kwIn, kwPairs)
         ELSE <<m.group>> \o FindAllKeywordNumber(t, m.next, digits, kwIn, kwPairs)

\* tokens matched as a whole by people?|persons?|individuals?
DEATH_UNITS == {"peopl", "people", "person", "persons", "individual", "individuals"}

\* tokens that begin with died, dead, killed, death or deaths
DEATH_KEYWORD_START == {"died", "dead", "killed", "death", "deaths"}

\* tokens that contain died, dead, killed or deaths
DEATH_KEYWORD_IN == {"died", "dead", "killed", "deaths"}

\* a token that ends with death, then one that begins with toll
DEATH_KEYWORD_PAIRS == {<<"death", "toll">>}

\* tokens matched as a whole by people?|persons?
INJURED_UNITS == {"peopl", "people", "person", "persons"}

\* tokens that begin with injured, wounded or hurt
INJURED_KEYWORD_START == {"injured", "wounded", "hurt"}

\* tokens matched as a whole by million|lakh|thousand|people?|persons?|families
AFFECTED_UNITS ==
    {"million", "lakh", "thousand", "peopl", "people", "person", "persons",
     "families"}

\* tokens that begin with affected, stranded, marooned, displaced or impacted
AFFECTED_KEYWORD_START ==
    {"affected", "stranded", "marooned", "displaced", "impacted"}

\* tokens that contain affected, stranded, marooned or displaced
AFFECTED_KEYWORD_IN == {"affected", "stranded", "marooned", "displaced"}

DEATHS_SENTINEL == <<"0", "or", "not", "mentioned">>

NOT_MENTIONED == <<"not", "mentioned">>

\* list(set(xs)), the sentinel forgotten
SetNoSentinel(xs, sentinel) == ListOfSet(xs)

\* list(set(xs)) if xs else [sentinel]
SetOrSentinel(xs, sentinel) == IF xs # <<>> THEN ListOfSet(xs) ELSE {sentinel}

extract_categorized_numbers(t) ==
    LET low == LowerText(t)
        deaths ==
            FindAllNumberKeyword(low, 1, "last", DEATH_UNITS, DEATH_KEYWORD_START)
            \o FindAllKeywordNumber(low, 1, "first", DEATH_KEYWORD_IN,
                                    DEATH_KEYWORD_PAIRS)
        injured ==
            FindAllNumberKeyword(low, 1, "last", INJURED_UNITS,
                                 INJURED_KEYWORD_START)
        affected ==
            FindAllNumberKeyword(low, 1, "whole", AFFECTED_UNITS,
                                 AFFECTED_KEYWORD_START)
            \o FindAllKeywordNumber(low, 1, "whole", AFFECTED_KEYWORD_IN, {})
    IN [deaths |-> SetOrSentinel(deaths, DEATHS_SENTINEL),
        injured |-> SetOrSentinel(injured, NOT_MENTIONED),
        affected |-> SetOrSentinel(affected, NOT_MENTIONED)]

-----------------------------------------------------------------------------
(* extract_event_date *)

\* tokens that end with on, since, from or during
DATE_PREPOSITIONS ==
    {"on", "since", "from", "during", "upon", "million", "person"}

\* tokens that are one or two digits
DayTokens == {"5", "12", "21", "40"}

\* what \d{1,2} takes of a token that begins with a digit
DayPrefix(tok) ==
    CASE tok = "500" -> "50"
      [] tok = "2024" -> "20"
      [] tok = "2.5" -> "2"
      [] tok = "1,200" -> "1"
      [] OTHER -> tok

\* tokens that begin with four digits
YearTokens == {"2024"}

\* (?:on|since|from|during)\s+([A-Z][a-z]+\s+\d{1,2}(?:,?\s+\d{4})?) tried at
\* token i; the year group is greedy and needs the day token to end after
\* the one or two digits
EventDateMatchAt(t, i) ==
    LET m == SkipBreaks(t, i + 1)
        d == SkipBreaks(t, m + 1)
        y == SkipBreaks(t, d + 1)
        cy == SkipBreaks(t, d + 2)
    IN IF i > Len(t) \/ d > Len(t) \/ t[i] \notin DATE_PREPOSITIONS
          \/ t[m] \notin CapWords \/ t[d] \notin NumberTokens
       THEN None
       ELSE IF t[d] \in DayTokens /\ cy <= Len(t) /\ t[d + 1] = ","
               /\ t[cy] \in YearTokens
            THEN [none |-> FALSE, next |-> cy + 1, group |-> SubSeq(t, m, cy)]
       ELSE IF t[d] \in DayTokens /\ y <= Len(t) /\ t[y] \in YearTokens
            THEN [none |-> FALSE, next |-> y + 1, group |-> SubSeq(t, m, y)]
       ELSE [none |-> FALSE, next |-> d + 1,
             group |-> SubSeq(t, m, d - 1) \o <<DayPrefix(t[d])>>]

RECURSIVE FindAllEventDates(_, _)
FindAllEventDates(t, i) ==
    IF i > Len(t) THEN <<>>
    ELSE LET m == EventDateMatchAt(t, i) IN
         IF m.none THEN FindAllEventDates(t, i + 1)
         ELSE <<m.group>> \o FindAllEventDates(t, m.next)

NOT_CLEARLY_MENTIONED == <<"not", "clearly", "mentioned">>

\* the recognizer's first date preferred to the contextual match
extract_event_date_recognizer_first(ds, t) ==
    LET event_dates == FindAllEventDates(t, 1) IN
    IF ds # <<>> THEN ds[1] \o <<"(estimated)">>
    ELSE IF event_dates # <<>> THEN event_dates[1]
    ELSE NOT_CLEARLY_MENTIONED

extract_event_date(ds, t) ==
    LET event_dates == FindAllEventDates(t, 1) IN
    IF event_dates # <<>> THEN event_dates[1]
    ELSE IF ds # <<>> THEN ds[1] \o <<"(estimated)">>
    ELSE NOT_CLEARLY_MENTIONED

-----------------------------------------------------------------------------
(* The recognizer, nlp(text): a black box *)

\* tokens the recognizer may take for the name of a place or organisation
PlaceWords == {"Dhaka", "Sylhet", "Sirajganj", "Tangail", "Bogra"}

\* tokens the recognizer may start a date at, and those it may continue with
DateStartWords == {"August", "yesterday"}

DateContinueWords == NumberTokens \cup {","}

\* the labels the recognizer may give the span of tokens s
SpanLabels(s) ==
    (IF \A i \in 1..Len(s) : s[i] \in PlaceWords THEN {"GPE", "ORG"} ELSE {})
    \cup
    (IF s[1] \in DateStartWords /\ s[Len(s)] # ","
        /\ \A i \in 2..Len(s) : s[i] \in DateContinueWords
     THEN {"DATE"} ELSE {})

\* the entity sequences the recognizer may return for the tokens from i on,
\* with at most n entities: spans in document order that do not overlap,
\* Span.start the index of the first token and Span.end one past the last
RECURSIVE EntSeqs(_, _, _)
EntSeqs(tokens, i, n) ==
    IF i > Len(tokens) \/ n = 0 THEN {<<>>}
    ELSE EntSeqs(tokens, i + 1, n)
         \cup UNION {
             LET span == SubSeq(tokens, i, i + len - 1) IN
             IF SpanLabels(span) = {} THEN {}
             ELSE {<<[text |-> span, label |-> label, start |-> i - 1,
                      end |-> i + len - 1]>> \o rest :
                      label \in SpanLabels(span),
                      rest \in EntSeqs(tokens, i + len, n - 1)} :
             len \in 1..Min(MaxSpanLen, Len(tokens) - i + 1)}

\* a text longer than nlp.max_length, which nlp refuses with a ValueError
OVERLONG_TEXT == <<"<a text longer than nlp.max_length>">>

-----------------------------------------------------------------------------
(* process_article *)

UNSET == "unset"

ARTICLE_FILE == [id |-> 0, ext |-> ".txt"]

ArticleLocalsUnset ==
    /\ doc = UNSET
    /\ locations = UNSET
    /\ dates = UNSET
    /\ regex_locations = UNSET
    /\ spacy_categorized = UNSET
    /\ final_locations = UNSET
    /\ disaster_type = UNSET
    /\ categorized_numbers = UNSET
    /\ event_date = UNSET

\* [ent.text for ent in doc.ents if ent.label_ == label], in document order
EntTexts(ents, label) ==
    LET kept == SelectSeq(ents, LAMBDA e : e.label = label)
    IN [i \in 1..Len(kept) |-> kept[i].text]

\* lines 160-170: doc = nlp(text) and the loop that fills locations and dates
Nlp ==
    /\ pc = "nlp"
    /\ text # OVERLONG_TEXT
    /\ \E ents \in EntSeqs(text, 1, MaxEnts) :
          /\ doc' = [tokens |-> text, ents |-> ents]
          /\ locations' = EntTexts(ents, "GPE")
          /\ dates' = EntTexts(ents, "DATE")
    /\ pc' = "extract"
    /\ UNCHANGED <<text, filename, regex_locations, spacy_categorized,
                   final_locations, disaster_type, categorized_numbers,
                   event_date, console, exc>>
    /\ UNCHANGED mainVars

\* line 160 raising: the exception leaves process_article
NlpRaises ==
    /\ pc = "nlp"
    /\ text = OVERLONG_TEXT
    /\ exc' = "ValueError"
    /\ pc' = "except"
    /\ UNCHANGED <<console>>
    /\ UNCHANGED articleVars
    /\ UNCHANGED mainVars

\* lines 172-184: the two location paths, their merge, and the other facts
Extract ==
    /\ pc = "extract"
    /\ regex_locations' = extract_locations_with_regex(text)
    /\ spacy_categorized' = categorize_locations_by_context(doc, locations)
    /\ final_locations' =
          merge_location_results(spacy_categorized', regex_locations')
    /\ disaster_type' = extract_disaster_type(text)
    /\ categorized_numbers' = extract_categorized_numbers(text)
    /\ event_date' = extract_event_date(dates, text)
    /\ pc' = "display"
    /\ UNCHANGED <<text, filename, doc, locations, dates, console, exc>>
    /\ UNCHANGED mainVars

\* lines 186-200: the prints of the report, and the return (the locals are gone)
Display ==
    /\ pc = "display"
    /\ console' = Append(console,
          [kind |-> "article", filename |-> filename,
           disaster_type |-> disaster_type, event_date |-> event_date,
           districts |-> final_locations.districts,
           upazilas |-> final_locations.upazilas,
           uncertain |-> final_locations.uncertain_locations,
           deaths |-> categorized_numbers.deaths,
           injured |-> categorized_numbers.injured,
           affected |-> categorized_numbers.affected])
    /\ pc' = "returned"
    /\ text' = UNSET
    /\ filename' = UNSET
    /\ doc' = UNSET
    /\ locations' = UNSET
    /\ dates' = UNSET
    /\ regex_locations' = UNSET
    /\ spacy_categorized' = UNSET
    /\ final_locations' = UNSET
    /\ disaster_type' = UNSET
    /\ categorized_numbers' = UNSET
    /\ event_date' = UNSET
    /\ UNCHANGED exc
    /\ UNCHANGED mainVars

NextArticle ==
    \/ Nlp
    \/ Extract
    \/ Display

-----------------------------------------------------------------------------
(* main *)

NO_FS == [kind |-> "missing", files |-> <<>>]

\* os.path.exists(articles_dir)
PathExists(f) == f.kind # "missing"

\* [f for f in os.listdir(articles_dir) if f.endswith(".txt")]
TxtFiles(f) ==
    LET kept == SelectSeq(f.files, LAMBDA file : file.name.ext = ".txt")
    IN [i \in 1..Len(kept) |-> kept[i].name]

\* the directory entry with the given name
FileNamed(f, name) ==
    LET i == CHOOSE k \in 1..Len(f.files) : f.files[k].name = name
    IN f.files[i]

\* lines 206-208 with the return forgotten
CheckDirNoReturn ==
    /\ pc = "main"
    /\ IF ~PathExists(fs)
       THEN console' = Append(console, [kind |-> "dir_not_found"])
       ELSE console' = console
    /\ pc' = "listdir"
    /\ UNCHANGED <<exc>>
    /\ UNCHANGED articleVars
    /\ UNCHANGED mainVars

\* lines 206-208: the directory is missing
CheckDir ==
    /\ pc = "main"
    /\ IF ~PathExists(fs)
       THEN /\ console' = Append(console, [kind |-> "dir_not_found"])
            /\ pc' = "exit"
       ELSE /\ console' = console
            /\ pc' = "listdir"
    /\ UNCHANGED <<exc>>
    /\ UNCHANGED articleVars
    /\ UNCHANGED mainVars

\* lines 210-216: the listing, and the return when nothing is eligible
ListDir ==
    /\ pc = "listdir"
    /\ fs.kind = "dir"
    /\ txt_files' = TxtFiles(fs)
    /\ IF txt_files' = <<>>
       THEN /\ console' = Append(console, [kind |-> "no_txt_files"])
            /\ pc' = "exit"
       ELSE /\ console' = Append(console, [kind |-> "found", n |-> Len(txt_files')])
            /\ pc' = "loop"
    /\ UNCHANGED <<fs, file_idx, exc>>
    /\ UNCHANGED articleVars

\* line 210 when the path is no directory: os.listdir raises outside any try
ListDirRaises ==
    /\ pc = "listdir"
    /\ fs.kind # "dir"
    /\ exc' = (IF fs.kind = "missing" THEN "FileNotFoundError"
               ELSE "NotADirectoryError")
    /\ pc' = "raised"
    /\ UNCHANGED <<console>>
    /\ UNCHANGED articleVars
    /\ UNCHANGED mainVars

\* line 218: the for loop takes the next file name, or ends
LoopNext ==
    /\ pc \in {"loop", "returned"}
    /\ IF file_idx < Len(txt_files)
       THEN /\ file_idx' = file_idx + 1
            /\ filename' = txt_files[file_idx + 1]
            /\ pc' = "open"
       ELSE /\ UNCHANGED <<file_idx, filename>>
            /\ pc' = "exit"
    /\ UNCHANGED <<text, doc, locations, dates, regex_locations,
                   spacy_categorized, final_locations, disaster_type,
                   categorized_numbers, event_date, console, fs, txt_files, exc>>

\* lines 221-223: open, read, and the call of process_article
OpenRead ==
    /\ pc = "open"
    /\ LET file == FileNamed(fs, filename) IN
       IF file.status = "ok"
       THEN /\ text' = file.content
            /\ pc' = "nlp"
            /\ exc' = exc
       ELSE /\ exc' = (IF file.status = "open_fails" THEN "OSError"
                       ELSE "UnicodeDecodeError")
            /\ pc' = "except"
            /\ text' = text
    /\ UNCHANGED <<filename, doc, locations, dates, regex_locations,
                   spacy_categorized, final_locations, disaster_type,
                   categorized_numbers, event_date, console>>
    /\ UNCHANGED mainVars

\* lines 224-225 ending the loop after the report
ExceptAborts ==
    /\ pc = "except"
    /\ console' = Append(console,
          [kind |-> "error", filename |-> filename, e |-> exc])
    /\ exc' = "none"
    /\ pc' = "exit"
    /\ text' = UNSET
    /\ UNCHANGED <<filename, doc, locations, dates, regex_locations,
                   spacy_categorized, final_locations, disaster_type,
                   categorized_numbers, event_date>>
    /\ UNCHANGED mainVars

\* lines 224-225: except Exception as e, the report, and on to the next file
Except ==
    /\ pc = "except"
    /\ console' = Append(console,
          [kind |-> "error", filename |-> filename, e |-> exc])
    /\ exc' = "none"
    /\ pc' = "loop"
    /\ text' = UNSET
    /\ UNCHANGED <<filename, doc, locations, dates, regex_locations,
                   spacy_categorized, final_locations, disaster_type,
                   categorized_numbers, event_date>>
    /\ UNCHANGED mainVars

NextMain ==
    \/ CheckDir
    \/ ListDir
    \/ ListDirRaises
    \/ LoopNext
    \/ OpenRead
    \/ NlpRaises
    \/ Except
    \/ NextArticle

-----------------------------------------------------------------------------
(* Inputs *)

\* as many filler tokens as one side of a context window holds
PAD == [i \in 1..CONTEXT_TOKENS |-> "w"]

LocItems ==
    {<<"Dhaka">>, <<"Sylhet">>, <<"district">>, <<"upazila">>, <<"w">>, PAD}

\* enumerated lists: (a phrase before) head separator names terminator
ListTexts ==
    {before \o <<head, sep>> \o names \o term :
        before \in {<<>>, <<"Dhaka", "district">>, <<"Sylhet", "thana">>},
        head \in {"districts", "upazilas", "upazila"},
        sep \in {"--", ":"},
        names \in {<<"Dhaka">>, <<"Dhaka", ",", "Sylhet">>,
                   <<"Sylhet", ",", "and", "Dhaka">>, <<"Dhaka", "and", "Sylhet">>,
                   <<"Sylhet", ",", "Dhaka", ",", "and", "Sylhet">>,
                   <<"Dhaka", ",", ",", "and">>, <<"dhaka", ",", "Sylhet">>},
        term \in {<<".">>, <<",", "Nearly", "500">>, <<",", "40">>, <<>>,
                  <<",", "Sylhet", "Upazila", "district", ".">>}}

LocTexts ==
    {Flatten(items) : items \in SeqsUpTo(LocItems, MaxLocItems)} \cup ListTexts

NumTokens == {"12", "2.5", "people", "died", "injured", "affected", "w", NL}

NumTexts ==
    SeqsUpTo(NumTokens, MaxNumLen)
    \cup {<<"At", "least", "12", "people", "died", "and", "40", "were", "injured">>,
          <<"Nearly", "2.5", "million", "people", "have", "been", "affected">>,
          <<"death", "toll", "rose", "to", "1,200">>,
          <<"1,200", "Killed", NL, "displaced", "1,200", "families">>}

DateItems ==
    {<<"on">>, <<"August">>, <<"21">>, <<"2024">>, <<",", "2024">>,
     <<"on", "August", "5">>}

DateTexts == {Flatten(items) : items \in SeqsUpTo(DateItems, MaxDateItems)}

\* the texts of the files of the input directory
SAMPLE_TEXTS ==
    {<<"Flooding", "has", "inundated", "Sylhet", "district", "since", "August",
       "21", ".", "12", "people", "died">>,
     <<"Dhaka", "w", "Dhaka">>}

FileStates ==
    [ext : {".txt", ".md"}, status : {"ok"}, content : SAMPLE_TEXTS \cup {OVERLONG_TEXT}]
    \cup [ext : {".txt"}, status : {"open_fails", "undecodable"}, content : {<<>>}]

\* the directory entries: distinct names, in the order os.listdir gives them
Listings ==
    {[i \in 1..Len(fl) |->
         [name |-> [id |-> i, ext |-> fl[i].ext], status |-> fl[i].status,
          content |-> fl[i].content]] : fl \in SeqsUpTo(FileStates, MaxFiles)}

FileSystems ==
    {NO_FS, [kind |-> "not_a_directory", files |-> <<>>]}
    \cup {[kind |-> "dir", files |-> l] : l \in Listings}

-----------------------------------------------------------------------------
(* Specifications *)

\* process_article(t, ARTICLE_FILE) has just been called
InitArticle(texts) ==
    /\ pc = "nlp"
    /\ text \in texts
    /\ filename = ARTICLE_FILE
    /\ ArticleLocalsUnset
    /\ console = <<>>
    /\ fs = NO_FS
    /\ txt_files = <<>>
    /\ file_idx = 0
    /\ exc = "none"

InitLoc == InitArticle(LocTexts)

InitNum == InitArticle(NumTexts)

InitDate == InitArticle(DateTexts)

\* main() has just been called
Init ==
    /\ pc = "main"
    /\ text = UNSET
    /\ filename = UNSET
    /\ ArticleLocalsUnset
    /\ console = <<>>
    /\ fs \in FileSystems
    /\ txt_files = <<>>
    /\ file_idx = 0
    /\ exc = "none"

Next == NextMain

Spec == Init /\ [][Next]_vars

SpecLoc == InitLoc /\ [][NextArticle]_vars

SpecNum == InitNum /\ [][NextArticle]_vars

SpecDate == InitDate /\ [][NextArticle]_vars

-----------------------------------------------------------------------------
(* Properties *)

\* how often x occurs in the sequence xs
Count(xs, x) == Cardinality({i \in 1..Len(xs) : xs[i] = x})

\* the lower-cased tokens from 5 before the first token of the span of e to
\* 5 after its last, within the document
WindowOf(e) ==
    {Lower(doc.tokens[k]) :
        k \in Max(1, e.start - 4)..Min(Len(doc.tokens), e.end + 5)}

\* the window holds a word with upazila, upazilla, thana or sub-district in it
HasUpazilaWord(w) ==
    w \cap {"upazila", "upazilas", "upazilla", "thana", "sub-district"} # {}

\* the window holds a word with district, zila or zilla in it
HasDistrictWord(w) ==
    w \cap {"district", "districts", "sub-district", "zila", "zilla", "upazila",
            "upazilas", "upazilla"} # {}

\* entity i is the first GPE entity of the document with its text
FirstGpeSpan(i) ==
    /\ doc.ents[i].label = "GPE"
    /\ \A j \in 1..(i - 1) :
          ~(doc.ents[j].label = "GPE" /\ doc.ents[j].text = doc.ents[i].text)

\* C1: merge completeness. Every district name of the regex path is among
\* the merged districts and every upazila name of the regex path is among
\* the merged upazilas, whatever the recognizer path produced.
C1_MergeCompleteness ==
    pc = "display" =>
        /\ regex_locations.districts \subseteq final_locations.districts
        /\ regex_locations.upazilas \subseteq final_locations.upazilas

\* C1 witness: each path found a district that the other did not, and the
\* merged districts hold both.
C1_Witness ==
    /\ pc = "display"
    /\ regex_locations.districts \ Range(spacy_categorized.districts) # {}
    /\ Range(spacy_categorized.districts) \ regex_locations.districts # {}
    /\ Cardinality(final_locations.districts) >= 2

\* C2: tie-break. A recognized GPE name whose inspected window (that of its
\* first GPE span) holds both a sub-district keyword and a district keyword
\* is in upazilas, and in neither districts nor uncertain_locations.
C2_TieBreak ==
    pc = "display" =>
        \A i \in 1..Len(doc.ents) :
            (/\ FirstGpeSpan(i)
             /\ HasUpazilaWord(WindowOf(doc.ents[i]))
             /\ HasDistrictWord(WindowOf(doc.ents[i])))
            => /\ doc.ents[i].text \in Range(spacy_categorized.upazilas)
               /\ doc.ents[i].text \notin Range(spacy_categorized.districts)
               /\ doc.ents[i].text
                     \notin Range(spacy_categorized.uncertain_locations)

\* C2 witness: the inspected span is two tokens long, its window holds the
\* word district and the word upazila, and the name is an upazila.
C2_Witness ==
    /\ pc = "display"
    /\ \E i \in 1..Len(doc.ents) :
          /\ FirstGpeSpan(i)
          /\ "district" \in WindowOf(doc.ents[i])
          /\ "upazila" \in WindowOf(doc.ents[i])
          /\ doc.ents[i].end - doc.ents[i].start = 2
          /\ doc.ents[i].text \in Range(spacy_categorized.upazilas)

\* the three lists of the recognizer path share no name
RecognizerPathExclusive ==
    /\ Range(spacy_categorized.districts)
          \cap Range(spacy_categorized.upazilas) = {}
    /\ Range(spacy_categorized.districts)
          \cap Range(spacy_categorized.uncertain_locations) = {}
    /\ Range(spacy_categorized.upazilas)
          \cap Range(spacy_categorized.uncertain_locations) = {}

\* C3 as stated: per-source exclusivity. Before the merge no name is in two
\* collections of the recognizer path, and no name is in both collections of
\* the regex path.
C3_PerSourceExclusive ==
    pc = "display" =>
        /\ RecognizerPathExclusive
        /\ regex_locations.districts \cap regex_locations.upazilas = {}

\* C3 amended: before the merge no name is in two of the collections of the
\* recognizer path (districts, upazilas, uncertain_locations), for any
\* sequence of GPE spans, repeated names included.
C3_RecognizerPathExclusive ==
    pc = "display" => RecognizerPathExclusive

\* C3 witness: a name recognized twice, its two spans in windows of
\* different categories, while the regex path has the name in both tiers.
C3_Witness ==
    /\ pc = "display"
    /\ \E i, j \in 1..Len(doc.ents) :
          /\ i < j
          /\ doc.ents[i].label = "GPE"
          /\ doc.ents[j].label = "GPE"
          /\ doc.ents[i].text = doc.ents[j].text
          /\ HasUpazilaWord(WindowOf(doc.ents[i]))
               # HasUpazilaWord(WindowOf(doc.ents[j]))
          /\ doc.ents[i].text \in regex_locations.districts
          /\ doc.ents[i].text \in regex_locations.upazilas

\* C4: the merged uncertain collection is the recognizer path's
\* uncertain_locations, unchanged: nothing added, nothing removed.
C4_UncertainVerbatim ==
    pc = "display" =>
        final_locations.uncertain_locations
            = spacy_categorized.uncertain_locations

\* C4 witness: a name is uncertain in the recognizer path while the regex
\* path has typed that name and other names, and it is uncertain after merge.
C4_Witness ==
    /\ pc = "display"
    /\ \E n \in Range(spacy_categorized.uncertain_locations) :
          /\ n \in regex_locations.districts \cup regex_locations.upazilas
          /\ n \in Range(final_locations.uncertain_locations)
    /\ regex_locations.districts # {}
    /\ regex_locations.upazilas # {}

\* C9 as stated: after the merge each place name occurs at most once in the
\* districts, at most once in the upazilas and at most once in the uncertain
\* collection (districts and upazilas are built by list(set(..)), which
\* holds each name once; uncertain is the recognizer path's list).
C9_MergedDeduplicated ==
    pc = "display" =>
        /\ \A n \in final_locations.districts :
              Cardinality({m \in final_locations.districts : m = n}) <= 1
        /\ \A n \in final_locations.upazilas :
              Cardinality({m \in final_locations.upazilas : m = n}) <= 1
        /\ \A n \in Range(final_locations.uncertain_locations) :
              Count(final_locations.uncertain_locations, n) <= 1

\* the category the window of entity e calls for
WindowCategory(e) ==
    IF HasUpazilaWord(WindowOf(e)) THEN "upazilas"
    ELSE IF HasDistrictWord(WindowOf(e)) THEN "districts"
    ELSE "uncertain_locations"

\* C10: first-span rule. The window of the first GPE span with a name decides
\* the name's category, and every occurrence of the name in locations is in
\* the list of that category and in no other.
C10_FirstSpanRule ==
    pc = "display" =>
        \A i \in 1..Len(doc.ents) :
            FirstGpeSpan(i) =>
                \A c \in {"districts", "upazilas", "uncertain_locations"} :
                    Count(spacy_categorized[c], doc.ents[i].text)
                        = IF c = WindowCategory(doc.ents[i])
                          THEN Count(locations, doc.ents[i].text)
                          ELSE 0

\* C10 witness: a name recognized twice, no keyword in the window of its
\* first span, a keyword in the window of its second, and both occurrences
\* uncertain.
C10_Witness ==
    /\ pc = "display"
    /\ \E i, j \in 1..Len(doc.ents) :
          /\ i < j
          /\ FirstGpeSpan(i)
          /\ doc.ents[j].label = "GPE"
          /\ doc.ents[j].text = doc.ents[i].text
          /\ WindowCategory(doc.ents[i]) = "uncertain_locations"
          /\ WindowCategory(doc.ents[j]) # "uncertain_locations"
          /\ Count(spacy_categorized.uncertain_locations, doc.ents[i].text) = 2

\* token i starts a contextual date: on, since, from or during, a
\* capitalised word, and a number
ContextualAt(i) ==
    /\ i + 2 <= Len(text)
    /\ text[i] \in {"on", "since", "from", "during", "upon", "million", "person"}
    /\ text[i + 1] \in CapWords
    /\ text[i + 2] \in {"5", "12", "21", "40", "500", "2024", "2.5", "1,200"}

\* the result is the contextual date that starts at token i
IsContextualResult(i) ==
    \/ event_date = <<text[i + 1], DayPrefix(text[i + 2])>>
    \/ /\ i + 3 <= Len(text)
       /\ event_date = SubSeq(text, i + 1, i + 3)
       /\ text[i + 3] = "2024"
    \/ /\ i + 4 <= Len(text)
       /\ event_date = SubSeq(text, i + 1, i + 4)
       /\ text[i + 3] = ","
       /\ text[i + 4] = "2024"

\* C7: event date priority. With a contextual match in the text the result
\* is the first one, whatever the DATE spans; without one and with DATE
\* spans it is the first DATE span followed by (estimated); otherwise it is
\* the literal not clearly mentioned. The result is never empty and of
\* exactly one of the three forms.
C7_EventDatePriority ==
    pc = "display" =>
        LET ctx == {i \in 1..Len(text) : ContextualAt(i)}
            estimated == event_date[Len(event_date)] = "(estimated)"
            literal == event_date = NOT_CLEARLY_MENTIONED
        IN /\ event_date # <<>>
           /\ ctx # {} =>
                 /\ IsContextualResult(CHOOSE i \in ctx : \A j \in ctx : i <= j)
                 /\ ~estimated
                 /\ ~literal
           /\ (ctx = {} /\ dates # <<>>) =>
                 /\ event_date = dates[1] \o <<"(estimated)">>
                 /\ ~literal
           /\ (ctx = {} /\ dates = <<>>) => (literal /\ ~estimated)

\* C7 witness: two contextual matches and a DATE span that is not the first
\* of them; the result is the first contextual match.
C7_Witness ==
    /\ pc = "display"
    /\ Cardinality({i \in 1..Len(text) : ContextualAt(i)}) = 2
    /\ dates # <<>>
    /\ dates[1] = <<"August", "5">>
    /\ event_date = <<"August", "21">>

\* the text has a match of one of the two death patterns
HasDeathMatch ==
    \E i \in 1..Len(text) :
        \/ ~NumberKeywordMatchAt(LowerText(text), i, "last", DEATH_UNITS,
                                 DEATH_KEYWORD_START).none
        \/ ~KeywordNumberMatchAt(LowerText(text), i, "first",
                                 DEATH_KEYWORD_IN, DEATH_KEYWORD_PAIRS).none

\* the text has a match of the injured pattern
HasInjuredMatch ==
    \E i \in 1..Len(text) :
        ~NumberKeywordMatchAt(LowerText(text), i, "last", INJURED_UNITS,
                              INJURED_KEYWORD_START).none

\* the text has a match of one of the two affected patterns
HasAffectedMatch ==
    \E i \in 1..Len(text) :
        \/ ~NumberKeywordMatchAt(LowerText(text), i, "whole", AFFECTED_UNITS,
                                 AFFECTED_KEYWORD_START).none
        \/ ~KeywordNumberMatchAt(LowerText(text), i, "whole",
                                 AFFECTED_KEYWORD_IN, {}).none

\* a category's list: never empty; the sentinel alone when nothing matched,
\* and otherwise values of the text without the sentinel
CategoryWellFormed(values, sentinel, hasMatch) ==
    /\ values # {}
    /\ ~hasMatch => values = {sentinel}
    /\ hasMatch =>
          /\ sentinel \notin values
          /\ \A v \in values :
                Len(v) = 1 /\ \E i \in 1..Len(text) :
                    v[1] \in {text[i], FirstDigits(text[i]), LastDigits(text[i])}

\* C8: no category of extract_categorized_numbers is empty; each holds its
\* matched values, or its sentinel alone exactly when it had no match.
C8_NumbersNeverEmpty ==
    pc = "display" =>
        /\ CategoryWellFormed(categorized_numbers.deaths, DEATHS_SENTINEL,
                              HasDeathMatch)
        /\ CategoryWellFormed(categorized_numbers.injured, NOT_MENTIONED,
                              HasInjuredMatch)
        /\ CategoryWellFormed(categorized_numbers.affected, NOT_MENTIONED,
                              HasAffectedMatch)

\* C8 witness: deaths matched by both patterns, injured without a match and
\* so the sentinel, affected matched.
C8_Witness ==
    /\ pc = "display"
    /\ Cardinality(categorized_numbers.deaths) = 2
    /\ DEATHS_SENTINEL \notin categorized_numbers.deaths
    /\ categorized_numbers.injured = {NOT_MENTIONED}
    /\ categorized_numbers.affected = {<<"2.5">>}

\* the file cannot be read or processed
Fails(file) == file.status # "ok" \/ file.content = OVERLONG_TEXT

\* the reports of articles and of failures, in the order printed
FileReports ==
    SelectSeq(console, LAMBDA m : m.kind \in {"article", "error"})

\* C5: per-file failure isolation. With the directory listed, no exception
\* leaves main and main runs on until it returns (the extraction step has no
\* guard but its position, every other position has a step to take); at the
\* return there is one
\* report for every eligible file, in the order of the loop, an error report
\* naming the file for a file that fails and an article report for any other.
C5_FailureIsolation ==
    fs.kind = "dir" =>
        /\ pc # "raised"
        /\ pc \notin {"exit", "extract"} =>
              ENABLED (CheckDir \/ ListDir \/ LoopNext \/ OpenRead \/ Nlp
                          \/ NlpRaises \/ Except \/ Display)
        /\ pc = "exit" =>
              /\ exc = "none"
              /\ Len(FileReports) = Len(TxtFiles(fs))
              /\ \A i \in 1..Len(FileReports) :
                    /\ FileReports[i].filename = TxtFiles(fs)[i]
                    /\ FileReports[i].kind
                          = IF Fails(FileNamed(fs, TxtFiles(fs)[i]))
                            THEN "error" ELSE "article"

\* C5 witness: main has returned after a file that failed and, next, a file
\* that did not, which was processed.
C5_Witness ==
    /\ pc = "exit"
    /\ Len(FileReports) = 2
    /\ FileReports[1].kind = "error"
    /\ FileReports[2].kind = "article"

\* C6: configuration error. With the directory missing, or holding no name
\* that ends in .txt, no exception leaves main, no file is opened and no
\* article processed, and main returns after one message to the operator.
C6_ConfigurationError ==
    (fs.kind = "missing" \/ (fs.kind = "dir" /\ TxtFiles(fs) = <<>>)) =>
        /\ pc \in {"main", "listdir", "exit"}
        /\ FileReports = <<>>
        /\ pc # "exit" => ENABLED Next
        /\ pc = "exit" =>
              \/ fs.kind = "missing" /\ console = <<[kind |-> "dir_not_found"]>>
              \/ fs.kind = "dir" /\ console = <<[kind |-> "no_txt_files"]>>

\* C6 witness: main has returned from a directory that holds files, none of
\* them with a name ending in .txt.
C6_Witness ==
    /\ pc = "exit"
    /\ fs.kind = "dir"
    /\ fs.files # <<>>
    /\ console = <<[kind |-> "no_txt_files"]>>

====
